---- MODULE Spec2Model ----
(***************************************************************************)
(* Model of the Python data validator of ai-manager                        *)
(* (tests/data/migration_validator.py), of the seeding script              *)
(* (create_test_data.py) whose database it reads, and of the script that   *)
(* tests the token encryption (tests/unit/data/migration_validator.py).    *)
(*                                                                         *)
(* A database is a function from table name to a table; a table is a set   *)
(* of column names and a set of rows; a row is a function from column name *)
(* to a value.  A nullable value is a sequence of length 0 (SQL NULL,      *)
(* Python None) or 1 (the value); a text is a sequence of characters, so   *)
(* that strip() and startswith() are computed, not assumed.  The REAL      *)
(* column temperature is held in tenths (0.7 is 7, 2.0 is 20).             *)
(***************************************************************************)
EXTENDS Integers, Sequences, FiniteSets, TLC

VARIABLES db, migrated, conn, pc, raised, schema_results, integrity_results,
          results, exit_status, unit

vars == <<db, migrated, conn, pc, raised, schema_results, integrity_results,
          results, exit_status, unit>>

\* db                 the database file named on the command line
\* migrated           the dataset a migration of db produced; the validator
\*                    never reads it (only the equivalence comparison of the
\*                    specification would)
\* conn               self.conn: "none", "open" or "closed"
\* pc                 the statement of main / run_full_validation reached
\* raised             the exception propagating, or "none"
\* schema_results     validation_results['schema_validation']
\* integrity_results  validation_results['integrity_check']
\* results            what run_full_validation returned to main
\* exit_status        Null while running, then Some(0) or Some(1), where 1
\*                    stands for every non-zero status
\* unit               the run of the other script,
\*                    tests/unit/data/migration_validator.py: its position,
\*                    its locals and the objects it has allocated

(***************************************************************************)
(* Bounds of the model.                                                    *)
(***************************************************************************)
MaxProviders == 2
MaxConfigs == 3

(***************************************************************************)
(* Values.                                                                 *)
(***************************************************************************)
Null == <<>>
Some(v) == <<v>>
Val(x) == x[1]

\* Python truthiness of a fetched TEXT value: None and '' are falsy.
TruthyText(x) == x # Null /\ Val(x) # <<>>
\* Python truthiness of a fetched numeric value: None and 0 (0.0) are falsy.
TruthyNum(x) == x # Null /\ Val(x) # 0

Whitespace == {" ", "\t", "\n"}

RECURSIVE lstrip(_)
lstrip(s) == IF s = <<>> THEN s
             ELSE IF Head(s) \in Whitespace THEN lstrip(Tail(s)) ELSE s

RECURSIVE rstrip(_)
rstrip(s) == IF s = <<>> THEN s
             ELSE IF s[Len(s)] \in Whitespace
                  THEN rstrip(SubSeq(s, 1, Len(s) - 1)) ELSE s

\* str.strip()
strip(s) == rstrip(lstrip(s))

\* str.startswith(prefix)
startswith(s, prefix) ==
    Len(s) >= Len(prefix) /\ SubSeq(s, 1, Len(prefix)) = prefix

HttpPrefix == <<"h", "t", "t", "p", ":", "/", "/">>
HttpsPrefix == <<"h", "t", "t", "p", "s", ":", "/", "/">>

\* url.startswith(('http://', 'https://'))
StartsWithHttp(s) == startswith(s, HttpPrefix) \/ startswith(s, HttpsPrefix)

\* not x or x.strip() == ''
EmptyText(x) == ~TruthyText(x) \/ strip(Val(x)) = <<>>

(***************************************************************************)
(* Tables and their columns.                                               *)
(***************************************************************************)
\* The list validate_table_schemas walks.
TableList == <<"claude_providers", "codex_providers", "agent_guides",
               "mcp_servers", "common_configs">>
Tables == {TableList[i] : i \in 1..Len(TableList)}

\* get_required_fields: the required fields of a table, in order.
get_required_fields(t) ==
    CASE t = "claude_providers" ->
           <<"id", "name", "url", "token", "max_tokens", "temperature",
             "model", "enabled", "description", "timeout", "retry_count",
             "created_at", "updated_at">>
      [] t = "codex_providers" ->
           <<"id", "name", "url", "token", "type", "enabled", "created_at",
             "updated_at">>
      [] t = "agent_guides" ->
           <<"id", "name", "description", "created_at", "updated_at">>
      [] t = "mcp_servers" ->
           <<"id", "name", "url", "command", "args", "enabled", "description",
             "created_at", "updated_at">>
      [] t = "common_configs" ->
           <<"id", "key", "value", "type", "description", "created_at",
             "updated_at">>
      [] OTHER -> <<>>

Range(s) == {s[i] : i \in 1..Len(s)}

\* The columns of the CREATE TABLE statements of the seeding script.
SeedColumns(t) ==
    CASE t = "claude_providers" ->
           {"id", "name", "url", "token", "timeout", "auto_update", "type",
            "enabled", "opus_model", "sonnet_model", "haiku_model",
            "created_at", "updated_at"}
      [] t = "codex_providers" ->
           {"id", "name", "url", "token", "type", "enabled", "created_at",
            "updated_at"}
      [] t = "agent_guides" ->
           {"id", "name", "type", "text", "created_at", "updated_at"}
      [] t = "mcp_servers" ->
           {"id", "name", "type", "timeout", "command", "args", "env",
            "created_at", "updated_at"}
      [] t = "common_configs" ->
           {"id", "key", "value", "description", "category", "is_active",
            "created_at", "updated_at"}

\* The columns each integrity check names in its SELECT.
QueryColumns(t) ==
    CASE t = "claude_providers" ->
           {"id", "name", "url", "max_tokens", "temperature", "model",
            "enabled", "description", "timeout", "retry_count"}
      [] t = "codex_providers" -> {"id", "name", "url", "type", "enabled"}
      [] t = "agent_guides" -> {"id", "name", "description"}
      [] t = "mcp_servers" ->
           {"id", "name", "url", "command", "args", "enabled"}
      [] t = "common_configs" -> {"id", "key", "value", "type"}

\* A SELECT of these columns from the table succeeds: the table exists and
\* has every column named (otherwise sqlite3 raises OperationalError).
QueryOk(d, t) == d[t].cols # {} /\ QueryColumns(t) \subseteq d[t].cols

\* ORDER BY id: the rows of a table as a sequence of increasing id.
RECURSIVE OrderById(_)
OrderById(rows) ==
    IF rows = {} THEN <<>>
    ELSE LET first == CHOOSE r \in rows : \A q \in rows : r["id"] <= q["id"]
         IN  <<first>> \o OrderById(rows \ {first})

(***************************************************************************)
(* Issues and reports.  An issue is the message the code appends, held by  *)
(* its variable parts: the rule, the record id it is tagged with (0 when   *)
(* the message carries no id), the key and the count it prints.            *)
(***************************************************************************)
Issue(kind, id) == [kind |-> kind, id |-> id, key |-> Null, count |-> 0]
MultipleEnabled(n) ==
    [kind |-> "multiple_enabled", id |-> 0, key |-> Null, count |-> n]
DuplicateKey(k, n) ==
    [kind |-> "duplicate_key", id |-> 0, key |-> k, count |-> n]

\* return {'error': str(e), 'success': False}
ErrorReport(e) == [error |-> e, success |-> FALSE]

\* return {'total_count': ..., 'issues': issues, 'success': len(issues) == 0}
Report(total, issues) ==
    [total_count |-> total, issues |-> issues, success |-> Len(issues) = 0]

\* The report of validate_claude_providers, which also counts the enabled.
ClaudeReport(total, enabled, issues) ==
    [total_count |-> total, enabled_count |-> enabled, issues |-> issues,
     success |-> Len(issues) = 0]

\* The issues of a report; an error report holds none.
IssuesOf(rep) == IF "issues" \in DOMAIN rep THEN rep.issues ELSE <<>>

IsError(rep) == "error" \in DOMAIN rep

\* The outcome of a loop over the fetched rows: the issues collected, or
\* the exception that left the loop.
Collected(issues) == [raised |-> FALSE, issues |-> issues]
Raised(e) == [raised |-> TRUE, error |-> e]

MaxTokensLo == 1
MaxTokensHi == 100000
TemperatureLo == 0
TemperatureHi == 20

(***************************************************************************)
(* validate_claude_providers                                               *)
(***************************************************************************)
\* The issues one provider row adds, in the order the loop body appends
\* them.  The body is entered only when url is not None: see below.
ClaudeRowIssues(p) ==
    (IF EmptyText(p["name"]) THEN <<Issue("name_empty", p["id"])>> ELSE <<>>)
    \o (IF EmptyText(p["url"]) THEN <<Issue("url_empty", p["id"])>> ELSE <<>>)
    \o (IF ~StartsWithHttp(Val(p["url"]))
        THEN <<Issue("url_invalid", p["id"])>> ELSE <<>>)
    \o (IF p["enabled"] \notin {Some(0), Some(1)}
        THEN <<Issue("enabled_invalid", p["id"])>> ELSE <<>>)
    \o (IF TruthyNum(p["max_tokens"])
           /\ (Val(p["max_tokens"]) < MaxTokensLo
               \/ Val(p["max_tokens"]) > MaxTokensHi)
        THEN <<Issue("max_tokens_range", p["id"])>> ELSE <<>>)
    \o (IF TruthyNum(p["temperature"])
           /\ (Val(p["temperature"]) < TemperatureLo
               \/ Val(p["temperature"]) > TemperatureHi)
        THEN <<Issue("temperature_range", p["id"])>> ELSE <<>>)

\* for provider in providers: ...  provider['url'].startswith raises
\* AttributeError on a NULL url, which leaves the loop and the function.
RECURSIVE ClaudeLoop(_, _)
ClaudeLoop(providers, issues) ==
    IF providers = <<>> THEN Collected(issues)
    ELSE LET p == Head(providers)
         IN  IF p["url"] = Null THEN Raised("AttributeError")
             ELSE ClaudeLoop(Tail(providers), issues \o ClaudeRowIssues(p))

\* len([p for p in providers if p['enabled'] == 1])
EnabledCount(providers) ==
    Cardinality({i \in 1..Len(providers) : providers[i]["enabled"] = Some(1)})

\* SingletonIssues with the threshold off by one (enabled_count > 2).
SingletonIssues_Mut(enabled_count) ==
    IF enabled_count > 2 THEN <<MultipleEnabled(enabled_count)>> ELSE <<>>

\* if enabled_count > 1: issues.append(...)
SingletonIssues(enabled_count) ==
    IF enabled_count > 1 THEN <<MultipleEnabled(enabled_count)>> ELSE <<>>

validate_claude_providers(d) ==
    IF ~QueryOk(d, "claude_providers") THEN ErrorReport("OperationalError")
    ELSE LET providers == OrderById(d["claude_providers"].rows)
             loop == ClaudeLoop(providers, <<>>)
         IN  IF loop.raised THEN ErrorReport(loop.error)
             ELSE ClaudeReport(Len(providers), EnabledCount(providers),
                      loop.issues \o SingletonIssues(EnabledCount(providers)))

(***************************************************************************)
(* validate_codex_providers                                                *)
(***************************************************************************)
CodexRowIssues(p) ==
    (IF EmptyText(p["name"]) THEN <<Issue("name_empty", p["id"])>> ELSE <<>>)
    \o (IF EmptyText(p["url"]) THEN <<Issue("url_empty", p["id"])>> ELSE <<>>)
    \o (IF ~StartsWithHttp(Val(p["url"]))
        THEN <<Issue("url_invalid", p["id"])>> ELSE <<>>)
    \o (IF p["enabled"] \notin {Some(0), Some(1)}
        THEN <<Issue("enabled_invalid", p["id"])>> ELSE <<>>)

RECURSIVE CodexLoop(_, _)
CodexLoop(providers, issues) ==
    IF providers = <<>> THEN Collected(issues)
    ELSE LET p == Head(providers)
         IN  IF p["url"] = Null THEN Raised("AttributeError")
             ELSE CodexLoop(Tail(providers), issues \o CodexRowIssues(p))

validate_codex_providers(d) ==
    IF ~QueryOk(d, "codex_providers") THEN ErrorReport("OperationalError")
    ELSE LET providers == OrderById(d["codex_providers"].rows)
             loop == CodexLoop(providers, <<>>)
         IN  IF loop.raised THEN ErrorReport(loop.error)
             ELSE Report(Len(providers), loop.issues)

(***************************************************************************)
(* validate_agent_guides                                                   *)
(***************************************************************************)
GuideRowIssues(g) ==
    (IF EmptyText(g["name"]) THEN <<Issue("name_empty", g["id"])>> ELSE <<>>)
    \o (IF EmptyText(g["description"])
        THEN <<Issue("description_empty", g["id"])>> ELSE <<>>)

RECURSIVE GuideLoop(_, _)
GuideLoop(guides, issues) ==
    IF guides = <<>> THEN issues
    ELSE GuideLoop(Tail(guides), issues \o GuideRowIssues(Head(guides)))

validate_agent_guides(d) ==
    IF ~QueryOk(d, "agent_guides") THEN ErrorReport("OperationalError")
    ELSE LET guides == OrderById(d["agent_guides"].rows)
         IN  Report(Len(guides), GuideLoop(guides, <<>>))

(***************************************************************************)
(* validate_mcp_servers                                                    *)
(***************************************************************************)
ServerRowIssues(s) ==
    (IF EmptyText(s["name"]) THEN <<Issue("name_empty", s["id"])>> ELSE <<>>)
    \o (IF EmptyText(s["command"])
        THEN <<Issue("command_empty", s["id"])>> ELSE <<>>)
    \o (IF s["enabled"] \notin {Some(0), Some(1)}
        THEN <<Issue("enabled_invalid", s["id"])>> ELSE <<>>)

RECURSIVE ServerLoop(_, _)
ServerLoop(servers, issues) ==
    IF servers = <<>> THEN issues
    ELSE ServerLoop(Tail(servers), issues \o ServerRowIssues(Head(servers)))

validate_mcp_servers(d) ==
    IF ~QueryOk(d, "mcp_servers") THEN ErrorReport("OperationalError")
    ELSE LET servers == OrderById(d["mcp_servers"].rows)
         IN  Report(Len(servers), ServerLoop(servers, <<>>))

(***************************************************************************)
(* validate_common_configs                                                 *)
(***************************************************************************)
\* CountKey without its WHERE clause: every row is counted.
CountKey_Mut(rows, k) == Cardinality(rows)

\* SELECT COUNT(*) FROM common_configs WHERE key = ?  (in SQL a NULL key
\* equals nothing, a NULL parameter included).
CountKey(rows, k) ==
    IF k = Null THEN 0
    ELSE Cardinality({r \in rows : r["key"] # Null /\ r["key"] = k})

\* ConfigRowIssues reporting a shared key once, at the first row bearing it.
ConfigRowIssues_Mut(rows, c) ==
    (IF EmptyText(c["key"]) THEN <<Issue("key_empty", c["id"])>> ELSE <<>>)
    \o (IF EmptyText(c["value"])
        THEN <<Issue("value_empty", c["id"])>> ELSE <<>>)
    \o (IF CountKey(rows, c["key"]) > 1
           /\ \A r \in rows : r["key"] = c["key"] => r["id"] >= c["id"]
        THEN <<DuplicateKey(c["key"], CountKey(rows, c["key"]))>> ELSE <<>>)

ConfigRowIssues(rows, c) ==
    (IF EmptyText(c["key"]) THEN <<Issue("key_empty", c["id"])>> ELSE <<>>)
    \o (IF EmptyText(c["value"])
        THEN <<Issue("value_empty", c["id"])>> ELSE <<>>)
    \o (IF CountKey(rows, c["key"]) > 1
        THEN <<DuplicateKey(c["key"], CountKey(rows, c["key"]))>> ELSE <<>>)

RECURSIVE ConfigLoop(_, _, _)
ConfigLoop(rows, configs, issues) ==
    IF configs = <<>> THEN issues
    ELSE ConfigLoop(rows, Tail(configs),
                    issues \o ConfigRowIssues(rows, Head(configs)))

validate_common_configs(d) ==
    IF ~QueryOk(d, "common_configs") THEN ErrorReport("OperationalError")
    ELSE LET configs == OrderById(d["common_configs"].rows)
         IN  Report(Len(configs),
                    ConfigLoop(d["common_configs"].rows, configs, <<>>))

(***************************************************************************)
(* validate_table_schemas                                                  *)
(***************************************************************************)
EmptyDict == [k \in {} |-> TRUE]

\* get_table_schema: the columns PRAGMA table_info lists (none for a table
\* that does not exist).  The per-column type, notnull, default and pk are
\* not modelled: nothing reads them.
get_table_schema(d, t) == d[t].cols

\* get_table_row_count: SELECT COUNT(*); 0 when the query raises.
get_table_row_count(d, t) ==
    IF d[t].cols = {} THEN 0 ELSE Cardinality(d[t].rows)

\* for field in required_fields: if field not in schema: issues.append(...)
RECURSIVE MissingFields(_, _)
MissingFields(required, schema) ==
    IF required = <<>> THEN <<>>
    ELSE (IF Head(required) \notin schema THEN <<Head(required)>> ELSE <<>>)
         \o MissingFields(Tail(required), schema)

\* SchemaEntry taking a table without rows for a table that does not exist.
SchemaEntry_Mut(d, t) ==
    LET schema == get_table_schema(d, t)
    IN  [exists |-> get_table_row_count(d, t) > 0,
         columns |-> Cardinality(schema),
         row_count |-> get_table_row_count(d, t),
         schema |-> schema,
         issues |-> MissingFields(get_required_fields(t), schema)]

\* The entry the loop body stores for one table.
SchemaEntry(d, t) ==
    LET schema == get_table_schema(d, t)
    IN  [exists |-> Cardinality(schema) > 0,
         columns |-> Cardinality(schema),
         row_count |-> get_table_row_count(d, t),
         schema |-> schema,
         issues |-> MissingFields(get_required_fields(t), schema)]

\* The loop of SchemaLoop, left at the first table that does not exist.
RECURSIVE SchemaLoop_Mut(_, _, _)
SchemaLoop_Mut(d, tables, acc) ==
    IF tables = <<>> \/ d[Head(tables)].cols = {} THEN acc
    ELSE SchemaLoop_Mut(d, Tail(tables),
                        (Head(tables) :> SchemaEntry(d, Head(tables))) @@ acc)

\* for table in tables: schema_results[table] = ...
RECURSIVE SchemaLoop(_, _, _)
SchemaLoop(d, tables, acc) ==
    IF tables = <<>> THEN acc
    ELSE SchemaLoop(d, Tail(tables),
                    (Head(tables) :> SchemaEntry(d, Head(tables))) @@ acc)

\* validate_table_schemas whose loop ends at the first missing table.
validate_table_schemas_Mut(d) == SchemaLoop_Mut(d, TableList, EmptyDict)

validate_table_schemas(d) == SchemaLoop(d, TableList, EmptyDict)

(***************************************************************************)
(* validate_data_integrity                                                 *)
(***************************************************************************)
\* validate_data_integrity in which a failed claude_providers check is not
\* contained: its error is what every entity reports.
validate_data_integrity_Mut(d) ==
    IF IsError(validate_claude_providers(d))
    THEN [t \in Tables |-> validate_claude_providers(d)]
    ELSE [claude_providers |-> validate_claude_providers(d),
          codex_providers |-> validate_codex_providers(d),
          agent_guides |-> validate_agent_guides(d),
          mcp_servers |-> validate_mcp_servers(d),
          common_configs |-> validate_common_configs(d)]

validate_data_integrity(d) ==
    [claude_providers |-> validate_claude_providers(d),
     codex_providers |-> validate_codex_providers(d),
     agent_guides |-> validate_agent_guides(d),
     mcp_servers |-> validate_mcp_servers(d),
     common_configs |-> validate_common_configs(d)]

(***************************************************************************)
(* run_full_validation: the summary                                        *)
(***************************************************************************)
\* len([t for t in schema_results.values() if t.get('exists', False)])
ValidTables(sr) == Cardinality({t \in DOMAIN sr : sr[t].exists})

\* len([t for t in integrity_results.values() if t.get('success', False)])
PassedChecks(ir) == Cardinality({t \in DOMAIN ir : ir[t].success})

\* OverallSuccess folding the schema result alone.
OverallSuccess_Mut(sr, ir) == ValidTables(sr) = Cardinality(DOMAIN sr)

\* overall_success = (valid_tables == total_tables and
\*                    passed_integrity_checks == total_integrity_checks)
OverallSuccess(sr, ir) ==
    ValidTables(sr) = Cardinality(DOMAIN sr)
    /\ PassedChecks(ir) = Cardinality(DOMAIN ir)

\* The summary returned; database_path, validation_time, sample_data and
\* the copy of the two detailed results are left out.
Summary(sr, ir) ==
    [schema_validation |->
         [total_tables |-> Cardinality(DOMAIN sr),
          valid_tables |-> ValidTables(sr),
          success |-> ValidTables(sr) = Cardinality(DOMAIN sr)],
     integrity_validation |->
         [total_checks |-> Cardinality(DOMAIN ir),
          passed_checks |-> PassedChecks(ir),
          success |-> PassedChecks(ir) = Cardinality(DOMAIN ir)],
     overall_success |-> OverallSuccess(sr, ir)]

\* return {'success': False, 'error': '...'} when connect() fails.
ConnectFailed == [success |-> FALSE, error |-> "connect"]

\* The value of results before run_full_validation has returned.
NoResult == [pending |-> TRUE]

\* disconnect that closes nothing.
disconnect_Mut(c) == c

\* disconnect: if self.conn: self.conn.close()
disconnect(c) == IF c # "none" THEN "closed" ELSE c

\* ExitStatus reading a missing key as success.
ExitStatus_Mut(r) ==
    IF "overall_success" \in DOMAIN r
    THEN (IF r.overall_success THEN 0 ELSE 1)
    ELSE 0

\* sys.exit(0 if results['overall_success'] else 1); a result without the
\* key raises KeyError, which nothing catches: the interpreter exits 1.
ExitStatus(r) ==
    IF "overall_success" \in DOMAIN r
    THEN (IF r.overall_success THEN 0 ELSE 1)
    ELSE 1

(***************************************************************************)
(* The databases the validator is run on.                                  *)
(***************************************************************************)
Digits == <<"1", "2", "3", "4", "5", "6", "7", "8", "9">>

\* A value that satisfies every rule, for column c of the row with this id
\* (name and key differ from row to row).
GoodValue(c, id) ==
    CASE c = "id" -> id
      [] c \in {"name", "key"} -> Some(<<"n", Digits[id]>>)
      [] c = "url" -> Some(HttpsPrefix \o <<"a">>)
      [] c = "enabled" -> Some(0)
      [] c \in {"auto_update", "is_active"} -> Some(1)
      [] c = "max_tokens" -> Some(4096)
      [] c = "temperature" -> Some(7)
      [] c = "timeout" -> Some(30000)
      [] c = "retry_count" -> Some(3)
      [] OTHER -> Some(<<"x">>)

\* A row over the columns cols: good values, but for the columns of over.
MkRow(cols, id, over) ==
    [c \in cols |-> IF c \in DOMAIN over THEN over[c] ELSE GoodValue(c, id)]

\* The columns the validator requires of a table.
RequiredColumns(t) == Range(get_required_fields(t))

MissingTable == [cols |-> {}, rows |-> {}]

\* A table with the given columns and one row per id of the domain of shape.
MkTable(cols, shape) ==
    [cols |-> cols, rows |-> {MkRow(cols, i, shape[i]) : i \in DOMAIN shape}]

\* The table the seeding script creates, with n valid rows.
SeedTable(t, n) == MkTable(SeedColumns(t), [i \in 1..n |-> EmptyDict])

\* A table with the columns the validator requires, with n valid rows.
ValidTable(t, n) == MkTable(RequiredColumns(t), [i \in 1..n |-> EmptyDict])

\* The sets of at most n ids among 1..n+1.
IdSets(n) == {I \in SUBSET (1..(n + 1)) : Cardinality(I) <= n}

FtpUrl == <<"f", "t", "p", ":", "/", "/", "a">>

\* What a claude_providers row may hold in place of the good values.
ClaudeShapes ==
    {EmptyDict}
    \cup {("name" :> v) : v \in {Null, Some(<<>>), Some(<<" ">>)}}
    \cup {("url" :> v) : v \in {Null, Some(<<>>), Some(<<" ">>),
                                Some(HttpPrefix \o <<"a">>), Some(FtpUrl)}}
    \cup {("enabled" :> v) : v \in {Null, Some(1), Some(2)}}
    \cup {("max_tokens" :> v) :
             v \in {Null, Some(-1), Some(0), Some(MaxTokensLo),
                    Some(MaxTokensHi), Some(MaxTokensHi + 1)}}
    \cup {("temperature" :> v) :
             v \in {Null, Some(-1), Some(0), Some(TemperatureHi),
                    Some(TemperatureHi + 1)}}
    \cup {("timeout" :> v) : v \in {Null, Some(-1), Some(0)}}
    \cup {("enabled" :> Some(1)) @@ ("name" :> Some(<<>>))}

\* What a codex_providers row may hold in place of the good values.
CodexShapes ==
    {EmptyDict}
    \cup {("name" :> v) : v \in {Null, Some(<<>>), Some(<<" ">>)}}
    \cup {("url" :> v) : v \in {Null, Some(<<>>), Some(<<" ">>),
                                Some(HttpPrefix \o <<"a">>), Some(FtpUrl)}}
    \cup {("enabled" :> v) : v \in {Null, Some(1), Some(2)}}

\* What a common_configs row may hold in place of the good values.
ConfigShapes ==
    {EmptyDict}
    \cup {("key" :> v) : v \in {Null, Some(<<>>), Some(<<" ">>),
                                Some(<<"k">>), Some(<<"j">>)}}
    \cup {("value" :> v) : v \in {Null, Some(<<" ">>)}}
    \cup {("key" :> Some(<<"k">>)) @@ ("value" :> Null)}

\* A database of five valid tables of one row each.
ValidDb == [t \in Tables |-> ValidTable(t, 1)]

\* The tables of the databases of a whole run, per table: missing, as the
\* seeding script creates it, as the validator requires it (empty, valid,
\* and with rows that break a rule), and lacking a column no query names.
RunTables(t) ==
    {MissingTable, SeedTable(t, 1), ValidTable(t, 1)}
    \cup
    (CASE t = "claude_providers" ->
            {ValidTable(t, 0),
             MkTable(RequiredColumns(t),
                     [i \in 1..2 |-> ("enabled" :> Some(1))]),
             MkTable(RequiredColumns(t),
                     <<("name" :> Some(<<>>)), ("url" :> Null)>>),
             MkTable(RequiredColumns(t) \ {"updated_at"}, <<EmptyDict>>)}
       [] t = "codex_providers" ->
            {MkTable(RequiredColumns(t), <<("url" :> Some(FtpUrl))>>),
             MkTable(RequiredColumns(t), <<EmptyDict, ("url" :> Null)>>)}
       [] t = "agent_guides" ->
            {MkTable(RequiredColumns(t), <<("description" :> Some(<<>>))>>)}
       [] t = "mcp_servers" ->
            {MkTable(RequiredColumns(t), <<("command" :> Null)>>)}
       [] t = "common_configs" ->
            {MkTable(RequiredColumns(t),
                     [i \in 1..2 |-> ("key" :> Some(<<"k">>))])})

\* The table without its row of greatest id.
DropLast(tbl) ==
    [tbl EXCEPT !.rows =
        {r \in tbl.rows : \E q \in tbl.rows : q["id"] > r["id"]}]

\* The datasets a migration of d may have produced: d itself, or d short of
\* one row of one collection.
MigratedOf(d) ==
    {d} \cup {[d EXCEPT ![t] = DropLast(d[t])] :
                 t \in {u \in {"claude_providers", "common_configs"} :
                           d[u].rows # {}}}

(***************************************************************************)
(* The SQL the validator executes, and what a statement does to the        *)
(* database.  The validator never commits: it only reads.                  *)
(***************************************************************************)
Statement(verb, t) == [verb |-> verb, table |-> t]

\* cursor.execute(...): the database after the statement.
Execute(d, st) ==
    CASE st.verb \in {"SELECT", "PRAGMA table_info"} -> d
      [] st.verb = "DELETE" -> [d EXCEPT ![st.table].rows = {}]
      [] st.verb = "DROP TABLE" -> [d EXCEPT ![st.table] = MissingTable]

RECURSIVE ExecuteAll(_, _)
ExecuteAll(d, sts) ==
    IF sts = <<>> THEN d ELSE ExecuteAll(Execute(d, Head(sts)), Tail(sts))

\* get_table_schema and get_table_row_count, for each table in turn.
RECURSIVE SchemaStatements(_)
SchemaStatements(tables) ==
    IF tables = <<>> THEN <<>>
    ELSE <<Statement("PRAGMA table_info", Head(tables)),
           Statement("SELECT", Head(tables))>>
         \o SchemaStatements(Tail(tables))

\* IntegrityStatements with a clean-up of common_configs after the checks.
IntegrityStatements_Mut(d) ==
    [i \in 1..Len(TableList) |-> Statement("SELECT", TableList[i])]
    \o <<Statement("DELETE", "common_configs")>>

\* The SELECT of each integrity check, and the SELECT COUNT(*) that
\* validate_common_configs runs once per fetched row.
IntegrityStatements(d) ==
    [i \in 1..Len(TableList) |-> Statement("SELECT", TableList[i])]
    \o (IF QueryOk(d, "common_configs")
        THEN [i \in 1..Cardinality(d["common_configs"].rows) |->
                 Statement("SELECT", "common_configs")]
        ELSE <<>>)

\* The other script has not been started.
NotRun == [pc |-> "not_run"]

(***************************************************************************)
(* The run of main.                                                        *)
(***************************************************************************)
Init ==
    /\ \E claude \in RunTables("claude_providers"),
          codex \in RunTables("codex_providers"),
          guides \in RunTables("agent_guides"),
          servers \in RunTables("mcp_servers"),
          configs \in RunTables("common_configs") :
          db = [claude_providers |-> claude, codex_providers |-> codex,
                agent_guides |-> guides, mcp_servers |-> servers,
                common_configs |-> configs]
    /\ migrated \in MigratedOf(db)
    /\ conn = "none"
    /\ pc = "main"
    /\ raised = "none"
    /\ schema_results = EmptyDict
    /\ integrity_results = EmptyDict
    /\ results = NoResult
    /\ exit_status = Null
    /\ unit = NotRun

\* if len(sys.argv) != 2: sys.exit(1)
CheckArgs ==
    /\ pc = "main"
    /\ \E argc_ok \in BOOLEAN :
          IF argc_ok
          THEN pc' = "path" /\ exit_status' = exit_status
          ELSE pc' = "exited" /\ exit_status' = Some(1)
    /\ UNCHANGED <<db, migrated, conn, raised, schema_results,
                   integrity_results, results, unit>>

\* if not os.path.exists(db_path): sys.exit(1)
CheckPath ==
    /\ pc = "path"
    /\ \E file_exists \in BOOLEAN :
          IF file_exists
          THEN pc' = "connect" /\ exit_status' = exit_status
          ELSE pc' = "exited" /\ exit_status' = Some(1)
    /\ UNCHANGED <<db, migrated, conn, raised, schema_results,
                   integrity_results, results, unit>>

\* if not self.connect(): return {'success': False, 'error': ...}
Connect ==
    /\ pc = "connect"
    /\ \E connected \in BOOLEAN :
          IF connected
          THEN conn' = "open" /\ pc' = "schema" /\ results' = results
          ELSE conn' = conn /\ pc' = "save" /\ results' = ConnectFailed
    /\ UNCHANGED <<db, migrated, raised, schema_results, integrity_results,
                   exit_status, unit>>

\* schema_results = self.validate_table_schemas()
ValidateSchemas ==
    /\ pc = "schema"
    /\ schema_results' = validate_table_schemas(db)
    /\ db' = ExecuteAll(db, SchemaStatements(TableList))
    /\ pc' = "integrity"
    /\ UNCHANGED <<migrated, conn, raised, integrity_results, results,
                   exit_status, unit>>

\* integrity_results = self.validate_data_integrity()
ValidateIntegrity ==
    /\ pc = "integrity"
    /\ integrity_results' = validate_data_integrity(db)
    /\ db' = ExecuteAll(db, IntegrityStatements(db))
    /\ pc' = "summary"
    /\ UNCHANGED <<migrated, conn, raised, schema_results, results,
                   exit_status, unit>>

\* summary = {...}; return summary
Summarise ==
    /\ pc = "summary"
    /\ results' = Summary(schema_results, integrity_results)
    /\ pc' = "finally"
    /\ UNCHANGED <<db, migrated, conn, raised, schema_results,
                   integrity_results, exit_status, unit>>

\* A step inside the try block raises what no except clause of the step
\* catches (they catch Exception; KeyboardInterrupt is none).
StepRaises ==
    /\ pc \in {"schema", "integrity", "summary"}
    /\ raised' = "KeyboardInterrupt"
    /\ pc' = "finally"
    /\ UNCHANGED <<db, migrated, conn, schema_results, integrity_results,
                   results, exit_status, unit>>

\* finally: self.disconnect()
Finally ==
    /\ pc = "finally"
    /\ conn' = disconnect(conn)
    /\ pc' = IF raised = "none" THEN "save" ELSE "propagate"
    /\ UNCHANGED <<db, migrated, raised, schema_results, integrity_results,
                   results, exit_status, unit>>

\* The exception leaves run_full_validation and main: the interpreter
\* prints the traceback and exits with a non-zero status.
Propagate ==
    /\ pc = "propagate"
    /\ exit_status' = Some(1)
    /\ pc' = "exited"
    /\ UNCHANGED <<db, migrated, conn, raised, schema_results,
                   integrity_results, results, unit>>

\* validator.save_validation_report(report_path): writes the report file,
\* and catches what the write raises.
SaveReport ==
    /\ pc = "save"
    /\ pc' = "exit"
    /\ UNCHANGED <<db, migrated, conn, raised, schema_results,
                   integrity_results, results, exit_status, unit>>

\* sys.exit(0 if results['overall_success'] else 1)
Exit ==
    /\ pc = "exit"
    /\ exit_status' = Some(ExitStatus(results))
    /\ raised' = IF "overall_success" \in DOMAIN results
                 THEN raised ELSE "KeyError"
    /\ pc' = "exited"
    /\ UNCHANGED <<db, migrated, conn, schema_results, integrity_results,
                   results, unit>>

Next ==
    \/ CheckArgs
    \/ CheckPath
    \/ Connect
    \/ ValidateSchemas
    \/ ValidateIntegrity
    \/ Summarise
    \/ StepRaises
    \/ Finally
    \/ Propagate
    \/ SaveReport
    \/ Exit

Spec == Init /\ [][Next]_vars

(***************************************************************************)
(* One integrity pass over a database in which one collection is drawn     *)
(* from all its row shapes and the other four are valid: the state of a    *)
(* run that has connected and validated the schemas.                       *)
(***************************************************************************)
InitIntegrity(d) ==
    /\ db = d
    /\ migrated = d
    /\ conn = "open"
    /\ pc = "integrity"
    /\ raised = "none"
    /\ schema_results = validate_table_schemas(d)
    /\ integrity_results = EmptyDict
    /\ results = NoResult
    /\ exit_status = Null
    /\ unit = NotRun

\* claude_providers holds at most MaxProviders rows of any shape, or is the
\* table of the seeding script.
InitClaude ==
    \/ \E I \in IdSets(MaxProviders) :
          \E f \in [I -> ClaudeShapes] :
              InitIntegrity([ValidDb EXCEPT !["claude_providers"] =
                  MkTable(RequiredColumns("claude_providers"), f)])
    \/ \E n \in 0..1 :
          InitIntegrity([ValidDb EXCEPT !["claude_providers"] =
              SeedTable("claude_providers", n)])

SpecClaude == InitClaude /\ [][ValidateIntegrity]_vars

\* common_configs holds at most MaxConfigs rows of any shape, or is the
\* table of the seeding script.
InitConfigs ==
    \/ \E I \in IdSets(MaxConfigs) :
          \E f \in [I -> ConfigShapes] :
              InitIntegrity([ValidDb EXCEPT !["common_configs"] =
                  MkTable(RequiredColumns("common_configs"), f)])
    \/ \E n \in 0..1 :
          InitIntegrity([ValidDb EXCEPT !["common_configs"] =
              SeedTable("common_configs", n)])

SpecConfigs == InitConfigs /\ [][ValidateIntegrity]_vars

(***************************************************************************)
(* The rules of the data model, stated on a row.                           *)
(***************************************************************************)
Blank(x) == x = Null \/ \A i \in 1..Len(Val(x)) : Val(x)[i] \in Whitespace

HttpUrl(x) ==
    /\ x # Null
    /\ \/ (Len(Val(x)) >= 7 /\ SubSeq(Val(x), 1, 7) = HttpPrefix)
       \/ (Len(Val(x)) >= 8 /\ SubSeq(Val(x), 1, 8) = HttpsPrefix)

BooleanDomain(x) == x # Null /\ Val(x) \in {0, 1}

InRange(x, lo, hi) == x = Null \/ (lo <= Val(x) /\ Val(x) <= hi)

\* name, url and enabled of a provider row are as the data model asks.
ProviderFieldsOk(r) ==
    ~Blank(r["name"]) /\ ~Blank(r["url"]) /\ HttpUrl(r["url"])
    /\ BooleanDomain(r["enabled"])

\* Every per-record rule of a claude_providers row is satisfied.
ClaudeRowOk(r) ==
    /\ ProviderFieldsOk(r)
    /\ InRange(r["max_tokens"], MaxTokensLo, MaxTokensHi)
    /\ InRange(r["temperature"], TemperatureLo, TemperatureHi)

ClaudeRows == db["claude_providers"].rows
ClaudeResult == integrity_results["claude_providers"]
EnabledRows == {r \in ClaudeRows : r["enabled"] = Some(1)}
IssueIndexes(rep, kind) ==
    {i \in 1..Len(IssuesOf(rep)) : IssuesOf(rep)[i].kind = kind}

\* C1: when the claude_providers query succeeds and every row satisfies the
\* per-record rules, k >= 2 enabled rows give exactly one multiple-enabled
\* issue, carrying k, and success = false; at most one enabled row gives
\* no issue and success = true.
C1_SingletonInvariant ==
    (pc = "summary" /\ QueryOk(db, "claude_providers")
                    /\ \A r \in ClaudeRows : ClaudeRowOk(r))
    => LET k == Cardinality(EnabledRows)
       IN  IF k >= 2
           THEN /\ Cardinality(IssueIndexes(ClaudeResult,
                                            "multiple_enabled")) = 1
                /\ \A i \in IssueIndexes(ClaudeResult, "multiple_enabled") :
                      ClaudeResult.issues[i].count = k
                /\ ClaudeResult.success = FALSE
           ELSE /\ ~IsError(ClaudeResult)
                /\ ClaudeResult.issues = <<>>
                /\ ClaudeResult.success = TRUE

C1_Witness ==
    /\ pc = "summary" /\ QueryOk(db, "claude_providers")
    /\ \A r \in ClaudeRows : ClaudeRowOk(r)
    /\ Cardinality(EnabledRows) >= 2
    /\ ClaudeResult.success = FALSE

ConfigRows == db["common_configs"].rows
ConfigResult == integrity_results["common_configs"]
ConfigKeys == {r["key"] : r \in {q \in ConfigRows : q["key"] # Null}}
Occurrences(k) == Cardinality({r \in ConfigRows : r["key"] = k})

\* C2: when the common_configs query succeeds, every key held by n > 1 rows
\* has a duplicate-key issue naming it with count n and success = false,
\* and no duplicate-key issue names a key held by exactly one row.
C2_KeyUniqueness ==
    (pc = "summary" /\ QueryOk(db, "common_configs"))
    => \A k \in ConfigKeys :
          /\ Occurrences(k) > 1 =>
                /\ \E i \in 1..Len(IssuesOf(ConfigResult)) :
                      ConfigResult.issues[i]
                          = DuplicateKey(k, Occurrences(k))
                /\ ConfigResult.success = FALSE
          /\ Occurrences(k) = 1 =>
                \A i \in IssueIndexes(ConfigResult, "duplicate_key") :
                    ConfigResult.issues[i].key # k

C2_Witness ==
    /\ pc = "summary" /\ QueryOk(db, "common_configs")
    /\ \E k \in ConfigKeys : Occurrences(k) > 1
    /\ \E k \in ConfigKeys : Occurrences(k) = 1
    /\ IssueIndexes(ConfigResult, "duplicate_key") # {}

\* C3: every claude_providers row that breaks a rule on name, url or
\* enabled has an issue tagged with its id in the report, whatever the
\* other rows hold.
C3_FailSoft ==
    (pc = "summary" /\ QueryOk(db, "claude_providers"))
    => \A r \in ClaudeRows :
          ~ProviderFieldsOk(r) =>
              \E i \in 1..Len(IssuesOf(ClaudeResult)) :
                  IssuesOf(ClaudeResult)[i].id = r["id"]

(***************************************************************************)
(* The equivalence comparison of the specification (section 4.4), which    *)
(* the validator does not have: collections match when they hold the same  *)
(* number of records and every source record has a migrated record of the  *)
(* same natural key and the same fields.                                   *)
(***************************************************************************)
NaturalKey(r) == IF "key" \in DOMAIN r THEN r["key"] ELSE r["name"]

CollectionMatches(source, target) ==
    /\ Cardinality(source.rows) = Cardinality(target.rows)
    /\ \A r \in source.rows :
          \E q \in target.rows :
              /\ NaturalKey(q) = NaturalKey(r)
              /\ \A c \in DOMAIN r \ {"id"} : q[c] = r[c]

AllCollectionsMatch(source, target) ==
    \A t \in Tables : CollectionMatches(source[t], target[t])

Returned == "overall_success" \in DOMAIN results

AllTablesExist ==
    \A t \in Tables : t \in DOMAIN schema_results /\ schema_results[t].exists

AllChecksPass ==
    \A t \in Tables :
        t \in DOMAIN integrity_results /\ integrity_results[t].success

OthersWellFormed(d, t) ==
    [u \in Tables |-> IF u = t THEN d[u] ELSE ValidTable(u, 1)]

\* C5: validate_table_schemas returns an entry for each of the five tables,
\* and the entry of a table is the one it returns when every other table
\* is well-formed.
C5_SchemaNeverAborted ==
    pc = "integrity" =>
        /\ DOMAIN schema_results = Tables
        /\ \A t \in Tables :
              schema_results[t]
                  = validate_table_schemas(OthersWellFormed(db, t))[t]

C5_Witness ==
    /\ pc = "integrity"
    /\ db["claude_providers"].cols = {}
    /\ db["agent_guides"].cols = SeedColumns("agent_guides")
    /\ "common_configs" \in DOMAIN schema_results
    /\ schema_results["common_configs"].exists

\* The check of an entity fails: its table or a queried column is missing,
\* or a row breaks a rule of the data model.
CheckFails(d, t) ==
    \/ ~QueryOk(d, t)
    \/ \E r \in d[t].rows :
          CASE t \in {"claude_providers", "codex_providers"} ->
                 ~ProviderFieldsOk(r)
            [] t = "agent_guides" ->
                 Blank(r["name"]) \/ Blank(r["description"])
            [] t = "mcp_servers" ->
                 Blank(r["name"]) \/ Blank(r["command"])
                 \/ ~BooleanDomain(r["enabled"])
            [] t = "common_configs" ->
                 Blank(r["key"]) \/ Blank(r["value"])

\* C6: validate_data_integrity returns a report for each of the five
\* entities; an entity whose check fails reports success = false, and the
\* reports of the other four are the ones returned when that entity is
\* valid.
C6_SiblingIsolation ==
    pc = "summary" =>
        /\ DOMAIN integrity_results = Tables
        /\ \A u \in Tables :
              CheckFails(db, u) =>
                  /\ integrity_results[u].success = FALSE
                  /\ \A t \in Tables \ {u} :
                        integrity_results[t]
                            = validate_data_integrity(
                                  [db EXCEPT ![u] = ValidTable(u, 1)])[t]

C6_Witness ==
    /\ pc = "summary"
    /\ ~QueryOk(db, "mcp_servers")
    /\ \E r \in db["claude_providers"].rows : r["url"] = Null
    /\ integrity_results["codex_providers"].success
    /\ integrity_results["common_configs"].success

\* The database the seeding script creates, with valid records.
SeedDb == [t \in Tables |-> SeedTable(t, 1)]

\* C7: on the database of the seeding script, with valid records, the run
\* reports no missing field, success for the five integrity checks and
\* overall_success = true.
C7_CanonicalPasses ==
    (Returned /\ db = SeedDb) =>
        /\ \A t \in Tables : schema_results[t].issues = <<>>
        /\ \A t \in Tables : integrity_results[t].success
        /\ results.overall_success

\* C8: no step of the run changes the rows, the values or the columns of a
\* table.
C8_PureRead == [][db' = db]_vars

C8_Witness ==
    /\ pc = "exited" /\ Returned
    /\ \A t \in Tables : db[t].rows # {}
    /\ IntegrityStatements(db) # <<>>

\* C9: the process exits with status 0 exactly when run_full_validation
\* returned overall_success = true, and with a non-zero status otherwise.
C9_ExitStatus ==
    pc = "exited" =>
        /\ exit_status \in {Some(0), Some(1)}
        /\ exit_status = Some(0) <=> (Returned /\ results.overall_success)

C9_Witness ==
    pc = "exited" /\ exit_status = Some(0) /\ Returned /\ conn = "closed"

\* C10: when run_full_validation has returned or let an exception through,
\* the connection is not open; and the validation steps run on an open
\* connection only.
C10_ConnectionReleased ==
    /\ pc \in {"save", "exit", "exited", "propagate"} => conn # "open"
    /\ pc \in {"schema", "integrity", "summary"} => conn = "open"

C10_Witness == pc = "propagate" /\ conn = "closed" /\ raised # "none"

(***************************************************************************)
(* One integrity pass over the shapes of codex_providers.                  *)
(***************************************************************************)
\* codex_providers holds at most MaxProviders rows of any shape.
InitCodex ==
    \E I \in IdSets(MaxProviders) :
        \E f \in [I -> CodexShapes] :
            InitIntegrity([ValidDb EXCEPT !["codex_providers"] =
                MkTable(RequiredColumns("codex_providers"), f)])

SpecCodex == InitCodex /\ [][ValidateIntegrity]_vars

CodexRows == db["codex_providers"].rows
CodexResult == integrity_results["codex_providers"]

\* C11: when k >= 2 codex_providers rows are enabled (and every row
\* satisfies the per-record rules), the report holds a multiple-enabled
\* issue with count k and success = false.
C11_CodexSingleton ==
    (pc = "summary" /\ QueryOk(db, "codex_providers")
                    /\ \A r \in CodexRows : ProviderFieldsOk(r))
    => LET k == Cardinality({r \in CodexRows : r["enabled"] = Some(1)})
       IN  k >= 2 =>
               /\ \E i \in 1..Len(IssuesOf(CodexResult)) :
                     IssuesOf(CodexResult)[i] = MultipleEnabled(k)
               /\ CodexResult.success = FALSE

\* No row makes the loop of the provider check raise.
NoNullUrl(rows) == \A r \in rows : r["url"] # Null

\* C12: every claude_providers row whose timeout is not positive has an
\* issue tagged with its id, and success = false (on a table whose check
\* runs to its end).
C12_TimeoutRange ==
    (pc = "summary" /\ QueryOk(db, "claude_providers")
                    /\ NoNullUrl(ClaudeRows))
    => \A r \in ClaudeRows :
          (r["timeout"] # Null /\ Val(r["timeout"]) <= 0) =>
              /\ \E i \in 1..Len(IssuesOf(ClaudeResult)) :
                    IssuesOf(ClaudeResult)[i].id = r["id"]
              /\ ClaudeResult.success = FALSE

\* C14: for each table, exists is true exactly when the table has a column,
\* columns is the number of columns, row_count the number of rows, and the
\* issues name each required field that is not a column, once, and nothing
\* else; for a missing table they name every required field.
C14_SchemaReportContent ==
    pc = "integrity" =>
        \A t \in Tables :
            LET e == schema_results[t]
                missing == RequiredColumns(t) \ db[t].cols
            IN  /\ e.exists = (db[t].cols # {})
                /\ e.columns = Cardinality(db[t].cols)
                /\ e.row_count = Cardinality(db[t].rows)
                /\ Range(e.issues) = missing
                /\ Len(e.issues) = Cardinality(missing)
                /\ db[t].cols = {} => Range(e.issues) = RequiredColumns(t)

C14_Witness ==
    /\ pc = "integrity"
    /\ db["claude_providers"].cols # {}
    /\ db["claude_providers"].rows = {}
    /\ db["mcp_servers"].cols = {}
    /\ Len(schema_results["mcp_servers"].issues) = 9
    /\ Len(schema_results["common_configs"].issues) = 1

\* C16: whatever run_full_validation returns carries overall_success, and
\* main's reading of it raises nothing.
C16_ResultCarriesOverall ==
    /\ results # NoResult => "overall_success" \in DOMAIN results
    /\ raised # "KeyError"

\* C17: when the check runs to its end, a row whose max_tokens is not NULL
\* has a max_tokens issue tagged with its id exactly when max_tokens < 1 or
\* max_tokens > 100000, and a row whose max_tokens is NULL has none.
C17_MaxTokensRange ==
    (pc = "summary" /\ QueryOk(db, "claude_providers")
                    /\ NoNullUrl(ClaudeRows))
    => \A r \in ClaudeRows :
          LET flagged ==
                  \E i \in IssueIndexes(ClaudeResult, "max_tokens_range") :
                      ClaudeResult.issues[i].id = r["id"]
          IN  IF r["max_tokens"] = Null THEN ~flagged
              ELSE flagged <=> (Val(r["max_tokens"]) < 1
                                \/ Val(r["max_tokens"]) > 100000)

\* The rows whose key is the key of another row.
SharingRows ==
    {r \in ConfigRows :
        r["key"] # Null
        /\ \E q \in ConfigRows : q["id"] # r["id"] /\ q["key"] = r["key"]}

\* C18: a key held by n > 1 rows has exactly n duplicate-key issues, each
\* with count n, and the duplicate-key issues are as many as the rows whose
\* key another row holds.
C18_DuplicateMultiplicity ==
    (pc = "summary" /\ QueryOk(db, "common_configs"))
    => /\ \A k \in ConfigKeys :
             Occurrences(k) > 1 =>
                 /\ Cardinality({i \in IssueIndexes(ConfigResult,
                                                    "duplicate_key") :
                                    ConfigResult.issues[i].key = k})
                        = Occurrences(k)
                 /\ \A i \in IssueIndexes(ConfigResult, "duplicate_key") :
                       ConfigResult.issues[i].key = k =>
                           ConfigResult.issues[i].count = Occurrences(k)
       /\ Cardinality(IssueIndexes(ConfigResult, "duplicate_key"))
              = Cardinality(SharingRows)

C18_Witness ==
    /\ pc = "summary" /\ QueryOk(db, "common_configs")
    /\ Cardinality(SharingRows) >= 2
    /\ Cardinality(ConfigRows) > Cardinality(SharingRows)
    /\ Cardinality(IssueIndexes(ConfigResult, "duplicate_key")) >= 2

(***************************************************************************)
(* The other script: tests/unit/data/migration_validator.py.               *)
(*                                                                         *)
(* A str is a sequence of code points and a bytes a sequence of numbers in *)
(* 0..255, so that str.encode() and bytes.decode() are computed.  Fernet   *)
(* is the class of the cryptography library; its code is not in the        *)
(* repository, and the model follows the token format of the               *)
(* specification (4.1): version, time, IV, CBC ciphertext of the padded    *)
(* plaintext, tag, all in URL-safe base64.  The block cipher and the tag   *)
(* function stand for AES and HMAC: a keyed permutation of blocks and a    *)
(* keyed function of the signed bytes.                                     *)
(***************************************************************************)
\* What a call returns: a value, or the exception it raises.
Ok(v) == [ok |-> TRUE, value |-> v]
Fail(e) == [ok |-> FALSE, error |-> e]

\* The UTF-8 bytes of one code point.
Utf8Char(cp) ==
    IF cp < 128 THEN <<cp>>
    ELSE IF cp < 2048 THEN <<192 + cp \div 64, 128 + (cp % 64)>>
    ELSE IF cp < 65536
         THEN <<224 + cp \div 4096, 128 + ((cp \div 64) % 64), 128 + (cp % 64)>>
    ELSE <<240 + cp \div 262144, 128 + ((cp \div 4096) % 64),
           128 + ((cp \div 64) % 64), 128 + (cp % 64)>>

\* str.encode(): the UTF-8 bytes of a str (without surrogates).
RECURSIVE encode(_)
encode(s) ==
    IF s = <<>> THEN <<>>
    ELSE IF Len(s) = 1 THEN Utf8Char(s[1])
    ELSE LET h == Len(s) \div 2
         IN  encode(SubSeq(s, 1, h)) \o encode(SubSeq(s, h + 1, Len(s)))

\* The length of the UTF-8 sequence a byte opens; 0 when it opens none.
CharLen(b) ==
    IF b < 128 THEN 1
    ELSE IF b >= 194 /\ b < 224 THEN 2
    ELSE IF b >= 224 /\ b < 240 THEN 3
    ELSE IF b >= 240 /\ b < 245 THEN 4
    ELSE 0

Continuation(b) == b >= 128 /\ b < 192

\* The code point of a UTF-8 sequence of CharLen bytes.
CodePoint(c) ==
    IF Len(c) = 1 THEN c[1]
    ELSE IF Len(c) = 2 THEN (c[1] - 192) * 64 + (c[2] - 128)
    ELSE IF Len(c) = 3
         THEN (c[1] - 224) * 4096 + (c[2] - 128) * 64 + (c[3] - 128)
    ELSE (c[1] - 240) * 262144 + (c[2] - 128) * 4096
         + (c[3] - 128) * 64 + (c[4] - 128)

\* Neither overlong, nor a surrogate, nor beyond U+10FFFF.
Shortest(cp, n) ==
    /\ n = 2 => cp >= 128
    /\ n = 3 => cp >= 2048 /\ ~(cp >= 55296 /\ cp < 57344)
    /\ n = 4 => cp >= 65536 /\ cp < 1114112

\* bytes.decode() as bytes.decode() of a wrong codec would be: one
\* character per byte.
decode_Mut(b) == Ok(b)

\* The character of one whole UTF-8 sequence.
DecodeChar(c) ==
    LET n == CharLen(c[1])
    IN  IF n # Len(c) \/ \E j \in 2..n : ~Continuation(c[j])
        THEN Fail("UnicodeDecodeError")
        ELSE IF ~Shortest(CodePoint(c), n) THEN Fail("UnicodeDecodeError")
        ELSE Ok(<<CodePoint(c)>>)

\* bytes.decode(): the str of UTF-8 bytes, or UnicodeDecodeError.  The
\* bytes are cut where a character starts, near the middle.
RECURSIVE decode(_)
decode(b) ==
    IF b = <<>> THEN Ok(<<>>)
    ELSE LET starts == {i \in 2..Len(b) : ~Continuation(b[i])}
             late == {i \in starts : i > Len(b) \div 2}
             m == IF late # {}
                  THEN CHOOSE i \in late : \A j \in late : i <= j
                  ELSE CHOOSE i \in starts : \A j \in starts : i >= j
         IN  IF starts = {} THEN DecodeChar(b)
             ELSE LET left == decode(SubSeq(b, 1, m - 1))
                      right == decode(SubSeq(b, m, Len(b)))
                  IN  IF ~left.ok THEN left
                      ELSE IF ~right.ok THEN right
                      ELSE Ok(left.value \o right.value)

\* The character of a 6-bit value in the URL-safe alphabet, and back.
B64Char(v) ==
    IF v < 26 THEN 65 + v
    ELSE IF v < 52 THEN 71 + v
    ELSE IF v < 62 THEN v - 4
    ELSE IF v = 62 THEN 45 ELSE 95

B64Value(c) ==
    IF c >= 65 /\ c <= 90 THEN c - 65
    ELSE IF c >= 97 /\ c <= 122 THEN c - 71
    ELSE IF c >= 48 /\ c <= 57 THEN c + 4
    ELSE IF c = 45 THEN 62
    ELSE IF c = 95 THEN 63 ELSE -1

B64Pad == 61

\* The four characters of at most three bytes.
B64Quad(b) ==
    IF Len(b) = 1
    THEN <<B64Char(b[1] \div 4), B64Char((b[1] % 4) * 16), B64Pad, B64Pad>>
    ELSE IF Len(b) = 2
         THEN <<B64Char(b[1] \div 4),
                B64Char(((b[1] % 4) * 16) + b[2] \div 16),
                B64Char((b[2] % 16) * 4), B64Pad>>
    ELSE <<B64Char(b[1] \div 4),
           B64Char(((b[1] % 4) * 16) + b[2] \div 16),
           B64Char(((b[2] % 16) * 4) + b[3] \div 64),
           B64Char(b[3] % 64)>>

RECURSIVE urlsafe_b64encode(_)
urlsafe_b64encode(b) ==
    IF b = <<>> THEN <<>>
    ELSE IF Len(b) <= 3 THEN B64Quad(b)
    ELSE LET h == 3 * ((Len(b) \div 3 + 1) \div 2)
         IN  urlsafe_b64encode(SubSeq(b, 1, h))
             \o urlsafe_b64encode(SubSeq(b, h + 1, Len(b)))

\* The bytes of one group of four characters; padding only closes the text.
B64Group(g, last) ==
    LET v == [j \in 1..4 |-> B64Value(g[j])]
    IN  IF v[1] < 0 \/ v[2] < 0 THEN Fail("binascii.Error")
        ELSE IF last /\ g[3] = B64Pad /\ g[4] = B64Pad
             THEN Ok(<<v[1] * 4 + v[2] \div 16>>)
        ELSE IF v[3] < 0 THEN Fail("binascii.Error")
        ELSE IF last /\ g[4] = B64Pad
             THEN Ok(<<v[1] * 4 + v[2] \div 16,
                       ((v[2] % 16) * 16) + v[3] \div 4>>)
        ELSE IF v[4] < 0 THEN Fail("binascii.Error")
        ELSE Ok(<<v[1] * 4 + v[2] \div 16,
                  ((v[2] % 16) * 16) + v[3] \div 4,
                  ((v[3] % 4) * 64) + v[4]>>)

RECURSIVE B64Groups(_, _)
B64Groups(t, last) ==
    IF Len(t) = 4 THEN B64Group(t, last)
    ELSE LET h == 4 * (Len(t) \div 8)
             left == B64Groups(SubSeq(t, 1, h), FALSE)
             right == B64Groups(SubSeq(t, h + 1, Len(t)), last)
         IN  IF ~left.ok THEN left
             ELSE IF ~right.ok THEN right
             ELSE Ok(left.value \o right.value)

urlsafe_b64decode(t) ==
    IF t = <<>> THEN Ok(<<>>)
    ELSE IF Len(t) % 4 # 0 THEN Fail("binascii.Error")
    ELSE B64Groups(t, TRUE)

\* Sizes of the token format.
BlockSize == 16
KeySize == 32
TagSize == 32
TimeSize == 8
Version == 128

\* Fernet(key): the signing half and the encrypting half of the key.
Fernet(key) ==
    LET k == urlsafe_b64decode(key)
    IN  IF k.ok /\ Len(k.value) = KeySize
        THEN [ok |-> TRUE,
              signing_key |-> SubSeq(k.value, 1, KeySize \div 2),
              encryption_key |-> SubSeq(k.value, KeySize \div 2 + 1, KeySize)]
        ELSE Fail("ValueError")

RECURSIVE Xor(_, _)
Xor(a, b) ==
    IF a = 0 /\ b = 0 THEN 0
    ELSE (((a % 2) + (b % 2)) % 2) + 2 * Xor(a \div 2, b \div 2)

XorBlock(x, y) == [j \in 1..BlockSize |-> Xor(x[j], y[j])]

\* The block cipher: a permutation of the blocks for each key, and its
\* inverse.
BlockEncrypt(k, x) ==
    [j \in 1..BlockSize |-> (x[(j % BlockSize) + 1] + k[j]) % 256]

BlockDecrypt(k, c) ==
    [j \in 1..BlockSize |->
        LET i == ((j + BlockSize - 2) % BlockSize) + 1
        IN  (c[i] + 256 - k[i]) % 256]

RECURSIVE CBCEncrypt(_, _, _)
CBCEncrypt(k, prev, x) ==
    IF x = <<>> THEN <<>>
    ELSE LET c == BlockEncrypt(k, XorBlock(SubSeq(x, 1, BlockSize), prev))
         IN  c \o CBCEncrypt(k, c, SubSeq(x, BlockSize + 1, Len(x)))

RECURSIVE CBCDecrypt(_, _, _)
CBCDecrypt(k, prev, c) ==
    IF c = <<>> THEN <<>>
    ELSE LET head == SubSeq(c, 1, BlockSize)
         IN  XorBlock(BlockDecrypt(k, head), prev)
             \o CBCDecrypt(k, head, SubSeq(c, BlockSize + 1, Len(c)))

\* Padding to whole blocks: n bytes of value n, 1 <= n <= BlockSize.
pad(x) ==
    LET n == BlockSize - (Len(x) % BlockSize)
    IN  x \o [j \in 1..n |-> n]

unpad(x) ==
    IF x = <<>> THEN Fail("InvalidPadding")
    ELSE LET n == x[Len(x)]
         IN  IF n < 1 \/ n > BlockSize \/ n > Len(x)
                \/ \E j \in (Len(x) - n + 1)..Len(x) : x[j] # n
             THEN Fail("InvalidPadding")
             ELSE Ok(SubSeq(x, 1, Len(x) - n))

\* The tag: a function of the signing key and of the signed bytes.
RECURSIVE WeightedSum(_, _, _)
WeightedSum(x, lo, hi) ==
    IF lo > hi THEN 0
    ELSE IF lo = hi THEN (lo * x[lo]) % 65521
    ELSE LET h == (lo + hi) \div 2
         IN  (WeightedSum(x, lo, h) + WeightedSum(x, h + 1, hi)) % 65521

hmac(k, x) ==
    LET s == WeightedSum(x, 1, Len(x))
    IN  [j \in 1..TagSize |-> (s * j + k[((j - 1) % Len(k)) + 1]) % 256]

\* n as size bytes, the most significant first.
RECURSIVE BigEndian(_, _)
BigEndian(n, size) ==
    IF size = 0 THEN <<>>
    ELSE BigEndian(n \div 256, size - 1) \o <<n % 256>>

\* Fernet.encrypt(data) at time now with the random bytes iv.
encrypt(f, data, now, iv) ==
    LET ciphertext == CBCEncrypt(f.encryption_key, iv, pad(data))
        basic_parts == <<Version>> \o BigEndian(now, TimeSize) \o iv
                       \o ciphertext
    IN  urlsafe_b64encode(basic_parts \o hmac(f.signing_key, basic_parts))

\* Fernet.decrypt(token): the tag is verified before the ciphertext is
\* touched; no expiry.
decrypt(f, token) ==
    LET d == urlsafe_b64decode(token)
        header == 1 + TimeSize + BlockSize
    IN  IF ~d.ok \/ Len(d.value) < header + TagSize
        THEN Fail("InvalidToken")
        ELSE IF d.value[1] # Version THEN Fail("InvalidVersion")
        ELSE LET n == Len(d.value) - TagSize
                 basic_parts == SubSeq(d.value, 1, n)
                 tag == SubSeq(d.value, n + 1, Len(d.value))
                 iv == SubSeq(basic_parts, 2 + TimeSize, header)
                 ciphertext == SubSeq(basic_parts, header + 1, n)
             IN  IF hmac(f.signing_key, basic_parts) # tag
                 THEN Fail("InvalidSignature")
                 ELSE IF Len(ciphertext) % BlockSize # 0
                      THEN Fail("InvalidPadding")
                 ELSE unpad(CBCDecrypt(f.encryption_key, iv, ciphertext))

\* fernet.encrypt(text.encode()).decode() and
\* fernet.decrypt(text.encode()).decode()
EncryptText(f, text, now, iv) == decode(encrypt(f, encode(text), now, iv))

\* DecryptText without the decode() that closes line 125.
DecryptText_Mut(f, text) == decrypt(f, encode(text))

DecryptText(f, text) ==
    LET x == decrypt(f, encode(text))
    IN  IF x.ok THEN decode(x.value) ELSE x

(***************************************************************************)
(* Inputs of the unit script.                                              *)
(***************************************************************************)
MaxPlainLen == 3
LongLen == 48
MaxRecords == 1

\* test_key
TestKey ==
    <<74, 119, 52, 70, 102, 49, 66, 87, 76, 110, 83, 121, 107, 100,
      102, 88, 68, 86, 79, 117, 69, 74, 67, 71, 54, 109, 57, 100, 121,
      83, 84, 53, 66, 49, 86, 104, 85, 95, 113, 103, 48, 102, 73, 61>>

\* Another valid key.
OtherKey == urlsafe_b64encode([j \in 1..KeySize |-> (37 * j) % 256])

Keys == {TestKey, OtherKey}

\* test_cases; the run of "A" is LongLen long instead of 1000.
TestCases ==
    << <<115, 107, 45, 97, 110, 116, 45, 116, 101, 115, 116, 45, 107,
         101, 121, 45, 49>>,
       <<115, 107, 45, 116, 101, 115, 116, 45, 111, 112, 101, 110, 97,
         105, 45, 107, 101, 121, 45, 49>>,
       <<27979, 35797, 20013, 25991, 116, 111, 107, 101, 110>>,
       <<128274, 128272, 128273>>,
       <<>>,
       [j \in 1..LongLen |-> 65] >>

\* "A", U+00E9, U+6D4B and U+1F512: one, two, three and four bytes.
Alphabet == {65, 233, 27979, 128274}

Plaintexts == UNION {[1..n -> Alphabet] : n \in 0..MaxPlainLen}

\* What time.time() and os.urandom(16) may give.
Times == {0, 1700000000}
IVs ==
    {[j \in 1..BlockSize |-> 0],
     [j \in 1..BlockSize |-> (29 * j + 11) % 256]}

(***************************************************************************)
(* test_encryption_compatibility.                                          *)
(***************************************************************************)
\* The call: fernet = Fernet(test_key), then the first test case.
StartTest(key, cases) ==
    [pc |-> "test_for", test_key |-> key, test_cases |-> cases, i |-> 1,
     encrypted |-> Null, decrypted |-> Null, passed |-> Null]

\* return of the test: its locals are gone.
TestReturn(value) ==
    [pc |-> "test_returned", test_key |-> unit.test_key,
     test_cases |-> unit.test_cases, passed |-> Some(value)]

\* for test_data in test_cases; return True after the last case.
TestFor ==
    /\ unit.pc = "test_for"
    /\ unit' = IF unit.i <= Len(unit.test_cases)
               THEN [unit EXCEPT !.pc = "test_encrypt"]
               ELSE TestReturn(TRUE)
    /\ UNCHANGED <<db, migrated, conn, pc, raised, schema_results,
                   integrity_results, results, exit_status>>

\* encrypted = fernet.encrypt(test_data.encode()).decode()
TestEncrypt ==
    /\ unit.pc = "test_encrypt"
    /\ \E now \in Times, iv \in IVs :
          LET e == EncryptText(Fernet(unit.test_key),
                               unit.test_cases[unit.i], now, iv)
          IN  unit' = IF e.ok
                      THEN [unit EXCEPT !.pc = "test_decrypt",
                                        !.encrypted = Some(e.value)]
                      ELSE TestReturn(FALSE)
    /\ UNCHANGED <<db, migrated, conn, pc, raised, schema_results,
                   integrity_results, results, exit_status>>

\* decrypted = fernet.decrypt(encrypted.encode()).decode()
TestDecrypt ==
    /\ unit.pc = "test_decrypt"
    /\ LET d == DecryptText(Fernet(unit.test_key), Val(unit.encrypted))
       IN  unit' = IF d.ok
                   THEN [unit EXCEPT !.pc = "test_compare",
                                     !.decrypted = Some(d.value)]
                   ELSE TestReturn(FALSE)
    /\ UNCHANGED <<db, migrated, conn, pc, raised, schema_results,
                   integrity_results, results, exit_status>>

\* if test_data == decrypted: next case; else: return False
TestCompare ==
    /\ unit.pc = "test_compare"
    /\ unit' = IF unit.test_cases[unit.i] = Val(unit.decrypted)
               THEN [unit EXCEPT !.pc = "test_for", !.i = unit.i + 1]
               ELSE TestReturn(FALSE)
    /\ UNCHANGED <<db, migrated, conn, pc, raised, schema_results,
                   integrity_results, results, exit_status>>

NextTest == TestFor \/ TestEncrypt \/ TestDecrypt \/ TestCompare

\* The validator is not running.
Idle ==
    /\ db = ValidDb
    /\ migrated = ValidDb
    /\ conn = "none"
    /\ pc = "main"
    /\ raised = "none"
    /\ schema_results = EmptyDict
    /\ integrity_results = EmptyDict
    /\ results = NoResult
    /\ exit_status = Null

\* The test on any key and on the test cases of the script or one plaintext.
InitCodec ==
    /\ Idle
    /\ \E key \in Keys :
          \/ unit = StartTest(key, TestCases)
          \/ \E P \in Plaintexts : unit = StartTest(key, <<P>>)

SpecCodec == InitCodec /\ [][NextTest]_vars

\* C13: for every plaintext and valid key the test meets, at any time and
\* with any IV, what the test decrypts is the plaintext it encrypted; the
\* test passes to the next case only from such a comparison, and returns
\* True only when the loop has run through every case.
C13_RoundTrip ==
    /\ [](unit.pc = "test_compare"
            => unit.decrypted = Some(unit.test_cases[unit.i]))
    /\ [][(unit.pc = "test_compare" /\ unit'.pc = "test_for")
            => (unit.decrypted = Some(unit.test_cases[unit.i])
                /\ unit'.i = unit.i + 1)]_vars
    /\ [][(unit'.pc = "test_returned" /\ unit'.passed = Some(TRUE)
           /\ unit.pc # "test_returned")
            => (unit.pc = "test_for" /\ unit.i = Len(unit.test_cases) + 1)]_vars
    /\ [][(unit.pc \in {"test_for", "test_encrypt", "test_decrypt"}
           /\ unit'.pc # "test_returned")
            => unit'.i = unit.i]_vars

C13_Witness ==
    /\ unit.pc = "test_returned"
    /\ unit.passed = Some(TRUE)
    /\ unit.test_key = TestKey
    /\ unit.test_cases = TestCases
    /\ \E i \in 1..Len(TestCases) : TestCases[i] = <<>>
    /\ \E i \in 1..Len(TestCases) :
          Len(encode(TestCases[i])) > Len(TestCases[i])
    /\ \E i \in 1..Len(TestCases) : Len(TestCases[i]) > 2 * BlockSize

(***************************************************************************)
(* main and encrypt_tokens of the unit script.  The objects of the dataset *)
(* are held in unit.heap, a sequence of objects; a list is a sequence of   *)
(* addresses and the dataset a record whose two provider collections are   *)
(* addresses of lists, so that dict.copy() copies what Python copies.      *)
(***************************************************************************)
\* The tokens of generate_test_data.
ClaudeToken ==
    <<115, 107, 45, 97, 110, 116, 45, 97, 112, 105, 48, 51, 45, 116,
      101, 115, 116, 45, 107, 101, 121, 45, 49>>

CodexToken ==
    <<115, 107, 45, 116, 101, 115, 116, 45, 111, 112, 101, 110, 97,
      105, 45, 107, 101, 121, 45, 49>>

TokenLists == UNION {[1..n -> {ClaudeToken, CodexToken}] : n \in 0..MaxRecords}

\* The objects of a dataset whose providers hold the given tokens: the
\* dataset at address 1, its two lists at 2 and 3, then the providers.
generate_test_data(claude, codex) ==
    [a \in 1..(3 + Len(claude) + Len(codex)) |->
        IF a = 1
        THEN [version |-> "1.0.0", claude_providers |-> 2,
              codex_providers |-> 3, agent_guides |-> "agent_guides",
              mcp_servers |-> "mcp_servers",
              common_configs |-> "common_configs"]
        ELSE IF a = 2 THEN [j \in 1..Len(claude) |-> 3 + j]
        ELSE IF a = 3 THEN [j \in 1..Len(codex) |-> 3 + Len(claude) + j]
        ELSE IF a <= 3 + Len(claude)
             THEN [id |-> a - 3, type |-> "public_welfare",
                   token |-> claude[a - 3]]
        ELSE [id |-> a - 3 - Len(claude), type |-> "official",
              token |-> codex[a - 3 - Len(claude)]]]

\* json.dump of the dataset at address a.
Dump(heap, a) ==
    [heap[a] EXCEPT
        !.claude_providers =
            [j \in 1..Len(heap[@]) |-> heap[heap[heap[a].claude_providers][j]]],
        !.codex_providers =
            [j \in 1..Len(heap[@]) |-> heap[heap[heap[a].codex_providers][j]]]]

\* encrypted_data = data.copy(): a new dict with the values of the old one,
\* which are the same two lists.
CopyStep(heap, a) == Append(heap, heap[a])

\* if not test_encryption_compatibility(): return False
\* data = generate_test_data()
GenerateData ==
    /\ unit.pc = "test_returned"
    /\ \/ /\ unit.passed = Some(FALSE)
          /\ unit' = [pc |-> "main_returned", success |-> FALSE]
       \/ /\ unit.passed = Some(TRUE)
          /\ \E claude \in TokenLists, codex \in TokenLists :
                unit' = [pc |-> "save_original",
                         heap |-> generate_test_data(claude, codex),
                         data |-> 1]
    /\ UNCHANGED <<db, migrated, conn, pc, raised, schema_results,
                   integrity_results, results, exit_status>>

\* json.dump(data, f) into python_original_sample.json
SaveOriginal ==
    /\ unit.pc = "save_original"
    /\ unit' = [pc |-> "encrypt_tokens", heap |-> unit.heap,
                data |-> unit.data,
                original_sample |-> Dump(unit.heap, unit.data)]
    /\ UNCHANGED <<db, migrated, conn, pc, raised, schema_results,
                   integrity_results, results, exit_status>>

\* encrypt_tokens(data, test_key): fernet = Fernet(key) and
\* encrypted_data = data.copy()
CallEncryptTokens ==
    /\ unit.pc = "encrypt_tokens"
    /\ unit' = [pc |-> "encrypt_claude",
                heap |-> CopyStep(unit.heap, unit.data),
                data |-> unit.data,
                original_sample |-> unit.original_sample,
                key |-> TestKey,
                encrypted_data |-> Len(unit.heap) + 1,
                j |-> 1]
    /\ UNCHANGED <<db, migrated, conn, pc, raised, schema_results,
                   integrity_results, results, exit_status>>

\* One turn of a loop of encrypt_tokens over the list at address l:
\* provider['token'] = fernet.encrypt(provider['token'].encode()).decode()
EncryptLoop(l, after) ==
    IF unit.j > Len(unit.heap[l])
    THEN unit' = [unit EXCEPT !.pc = after, !.j = 1]
    ELSE \E now \in Times, iv \in IVs :
            LET provider == unit.heap[l][unit.j]
                token == EncryptText(Fernet(unit.key),
                                     unit.heap[provider].token, now, iv)
            IN  unit' = [unit EXCEPT !.heap[provider].token = token.value,
                                     !.j = unit.j + 1]

\* for provider in encrypted_data['claude_providers']
EncryptClaude ==
    /\ unit.pc = "encrypt_claude"
    /\ EncryptLoop(unit.heap[unit.encrypted_data].claude_providers,
                   "encrypt_codex")
    /\ UNCHANGED <<db, migrated, conn, pc, raised, schema_results,
                   integrity_results, results, exit_status>>

\* for provider in encrypted_data['codex_providers']; return encrypted_data
EncryptCodex ==
    /\ unit.pc = "encrypt_codex"
    /\ EncryptLoop(unit.heap[unit.encrypted_data].codex_providers,
                   "save_encrypted")
    /\ UNCHANGED <<db, migrated, conn, pc, raised, schema_results,
                   integrity_results, results, exit_status>>

\* json.dump(encrypted_data, f) into python_encrypted_sample.json;
\* return True
SaveEncrypted ==
    /\ unit.pc = "save_encrypted"
    /\ unit' = [pc |-> "main_returned", success |-> TRUE,
                heap |-> unit.heap, data |-> unit.data,
                encrypted_data |-> unit.encrypted_data,
                original_sample |-> unit.original_sample,
                encrypted_sample |-> Dump(unit.heap, unit.encrypted_data)]
    /\ UNCHANGED <<db, migrated, conn, pc, raised, schema_results,
                   integrity_results, results, exit_status>>

\* exit(0 if success else 1)
UnitExit ==
    /\ unit.pc = "main_returned"
    /\ unit' = [pc |-> "exited", status |-> IF unit.success THEN 0 ELSE 1]
    /\ UNCHANGED <<db, migrated, conn, pc, raised, schema_results,
                   integrity_results, results, exit_status>>

NextUnit ==
    \/ NextTest
    \/ GenerateData
    \/ SaveOriginal
    \/ CallEncryptTokens
    \/ EncryptClaude
    \/ EncryptCodex
    \/ SaveEncrypted
    \/ UnitExit

\* main of the unit script: the test runs on test_key and test_cases.
InitUnit == Idle /\ unit = StartTest(TestKey, TestCases)

SpecUnit == InitUnit /\ [][NextUnit]_vars

\* C15: once encrypt_tokens has returned, the dataset passed to it is what
\* it was before the call (what was dumped as the original sample), and
\* every token of the returned dataset decrypts in one step to the token
\* the record had before the call.
C15_ArgumentUnchanged ==
    unit.pc = "save_encrypted" =>
        /\ Dump(unit.heap, unit.data) = unit.original_sample
        /\ LET returned == Dump(unit.heap, unit.encrypted_data)
           IN  \A c \in {"claude_providers", "codex_providers"} :
                 \A j \in 1..Len(returned[c]) :
                    DecryptText(Fernet(unit.key), returned[c][j].token)
                        = Ok(unit.original_sample[c][j].token)

====
